---- MODULE Spec2Model ----
(***************************************************************************)
(* Attribute value visitation and extraction of Boost.Log:                 *)
(*   boost/log/attributes/value_visitation.hpp  (value_visitor_invoker,    *)
(*                                               visit)                    *)
(*   boost/log/expressions/attr.hpp             (attribute_terminal, attr) *)
(*   boost/log/expressions/keyword.hpp          (keyword_terminal,         *)
(*                                               attribute_keyword)        *)
(*   boost/log/expressions/formatter.hpp        (basic_formatter)          *)
(* Spec: a record is assembled attribute by attribute, opened, read by     *)
(* visitors and extraction terminals, and closed.                          *)
(* SpecMerge: a value set is merged from its three attribute sources.      *)
(* SpecIntern: threads create attribute names in the name registry.        *)
(* SpecFormatter: formatters are assigned, swapped, reset and called.      *)
(* SpecStream: a basic_formatting_ostream (utility/formatting_stream.hpp)  *)
(* is constructed, attached, detached, written to and flushed.            *)
(* SpecRecordStream: a basic_record_ostream (sources/record_ostream.hpp)  *)
(* adopts and releases records.                                           *)
(* SpecPump: one BOOST_LOG_STREAM statement with its record_pump copies.  *)
(* SpecComposer: formatters are put into a basic_event_composer           *)
(* (sinks/event_log_backend.hpp).                                         *)
(***************************************************************************)
EXTENDS Integers, Sequences, FiniteSets, TLC

VARIABLES rec, last, merge, registry, fmt, fos, ros, composer, pump

vars == <<rec, last, merge, registry, fmt, fos, ros, composer, pump>>

\* the state of the stream, sink and source sub-models
io == <<fos, ros, composer, pump>>

(* ---------------------------------------------------------------------- *)
(* Bounds                                                                  *)
(* ---------------------------------------------------------------------- *)

\* number of distinct stored values per type
MaxVal == 2

\* longest candidate type list (an MPL sequence) handed to an invoker
MaxTypes == 2

(* ---------------------------------------------------------------------- *)
(* Data                                                                    *)
(* ---------------------------------------------------------------------- *)

\* attribute names that occur in records and in invokers
Names == {"Severity", "Message"}

\* the default-constructed attribute_name, equal to no registered name
NoName == "<none>"

\* dynamic types a stored value can have
Types == {"int", "string"}

\* an attribute_value holding a value: its dynamic type and the value
Values == [type : Types, value : 0 .. (MaxVal - 1)]

\* an attribute_value without implementation (holds no value)
EmptyValue == [type |-> "empty", value |-> 0]

attribute_value == Values \cup {EmptyValue}

\* attribute_values_view: unique names, one attribute_value per name
attribute_values_view == UNION {[D -> attribute_value] : D \in SUBSET Names}

EmptyView == [n \in {} |-> EmptyValue]

\* candidate type lists: non-empty sequences of distinct types
RECURSIVE TypeLists(_)
TypeLists(k) ==
    IF k = 0 THEN {<<>>}
    ELSE LET S == TypeLists(k - 1)
         IN S \cup {Append(s, t) : s \in {x \in S : Len(x) = k - 1},
                                   t \in Types}

Range(s) == {s[i] : i \in 1 .. Len(s)}

value_types ==
    {s \in TypeLists(MaxTypes) : Len(s) > 0 /\ Cardinality(Range(s)) = Len(s)}

\* what a user visitor does when it is called with a value:
\*   nop               returns normally (utility/functional/nop.hpp)
\*   throws_exception  raises an error derived from the library's exception
\*                     base, on which error info can be attached
\*   throws_other      raises an error of any other type
Visitors == {"nop", "throws_exception", "throws_other"}

\* an error in flight: its kind and the attribute name info attached to it
NoExc == [kind |-> "none", name |-> NoName]

VisitorRaises(visitor) ==
    CASE visitor = "throws_exception" -> [kind |-> "exception", name |-> NoName]
      [] visitor = "throws_other"     -> [kind |-> "other", name |-> NoName]
      [] OTHER                        -> NoExc

(* ---------------------------------------------------------------------- *)
(* attribute_value and attribute_values_view                               *)
(* ---------------------------------------------------------------------- *)

\* the past-the-end iterator of a view
end == "<end>"

\* attribute_values_view::find: iterator to the entry of name, or end
find(attrs, name) == IF name \in DOMAIN attrs THEN name ELSE end

\* attribute_value: exact dynamic type test
holds(value, T) == value.type = T

\* attribute_value::visit< value_types >(visitor): the candidate types are
\* tested in declared order, the visitor is called on the first match
RECURSIVE attribute_value_visit(_, _, _)
attribute_value_visit(value, types, visitor) ==
    IF types = <<>>
    THEN [matched |-> FALSE, calls |-> <<>>, exc |-> NoExc]
    ELSE IF holds(value, Head(types))
         THEN [matched |-> TRUE, calls |-> <<value>>,
               exc |-> VisitorRaises(visitor)]
         ELSE attribute_value_visit(value, Tail(types), visitor)

\* aux::attach_attribute_name_info(e, name)
attach_attribute_name_info(e, name) == [e EXCEPT !.name = name]

\* record::attribute_values()
attribute_values(r) == r.values

(* ---------------------------------------------------------------------- *)
(* visitation_result                                                       *)
(* ---------------------------------------------------------------------- *)

\* visitation_result::error_code
error_code == {"ok", "value_not_found", "value_has_invalid_type"}

\* visitation_result::visitation_result(error_code code = ok)
visitation_result(c) == [m_Code |-> c]

\* the constructor called without an argument
visitation_result_default == visitation_result("ok")

\* operator! with the comparison inverted
operator_not_inverted(r) == r.m_Code = "ok"

\* visitation_result::operator!
operator_not(r) == r.m_Code # "ok"

\* BOOST_LOG_EXPLICIT_OPERATOR_BOOL(): the conversion is the negation of
\* operator!
operator_bool(r) == ~operator_not(r)

\* visitation_result::code
visitation_result_code(r) == r.m_Code

(* ---------------------------------------------------------------------- *)
(* value_visitor_invoker                                                   *)
(* ---------------------------------------------------------------------- *)

\* the outcome of one call: the result code ("none" when an error leaves the
\* call), the values the visitor was called with, the error leaving the call,
\* the view after the call, and the numbers of lookups and visits performed
Outcome(code, calls, exc, attrs, finds, visits) ==
    [code |-> code, calls |-> calls, exc |-> exc, attrs |-> attrs,
     finds |-> finds, visits |-> visits]

\* the invoker reporting an absent name as a type mismatch
invoker_absent_as_invalid(m_Name, T, attrs, visitor) ==
    LET it == find(attrs, m_Name)
    IN IF it # end
       THEN LET r == attribute_value_visit(attrs[it], T, visitor)
            IN IF r.exc.kind = "exception"
               THEN Outcome("none", r.calls,
                            attach_attribute_name_info(r.exc, m_Name),
                            attrs, 1, 1)
               ELSE IF r.exc.kind # "none"
               THEN Outcome("none", r.calls, r.exc, attrs, 1, 1)
               ELSE IF r.matched
               THEN Outcome("ok", r.calls, NoExc, attrs, 1, 1)
               ELSE Outcome("value_has_invalid_type", r.calls, NoExc, attrs, 1, 1)
       ELSE Outcome("value_has_invalid_type", <<>>, NoExc, attrs, 1, 0)

\* the invoker without the else branch: a failed visit falls through to the
\* final return
invoker_falls_through(m_Name, T, attrs, visitor) ==
    LET it == find(attrs, m_Name)
    IN IF it # end
       THEN LET r == attribute_value_visit(attrs[it], T, visitor)
            IN IF r.exc.kind = "exception"
               THEN Outcome("none", r.calls,
                            attach_attribute_name_info(r.exc, m_Name),
                            attrs, 1, 1)
               ELSE IF r.exc.kind # "none"
               THEN Outcome("none", r.calls, r.exc, attrs, 1, 1)
               ELSE IF r.matched
               THEN Outcome("ok", r.calls, NoExc, attrs, 1, 1)
               ELSE Outcome("value_not_found", r.calls, NoExc, attrs, 1, 1)
       ELSE Outcome("value_not_found", <<>>, NoExc, attrs, 1, 0)

\* the invoker visiting once to test and once more to produce the result
invoker_visits_twice(m_Name, T, attrs, visitor) ==
    LET it == find(attrs, m_Name)
    IN IF it # end
       THEN LET r == attribute_value_visit(attrs[it], T, visitor)
            IN IF r.exc.kind = "exception"
               THEN Outcome("none", r.calls,
                            attach_attribute_name_info(r.exc, m_Name),
                            attrs, 1, 1)
               ELSE IF r.exc.kind # "none"
               THEN Outcome("none", r.calls, r.exc, attrs, 1, 1)
               ELSE IF r.matched
               THEN Outcome("ok", r.calls \o r.calls, NoExc, attrs, 1, 2)
               ELSE Outcome("value_has_invalid_type", r.calls, NoExc, attrs, 1, 2)
       ELSE Outcome("value_not_found", <<>>, NoExc, attrs, 1, 0)

\* the invoker taking the first entry of the view instead of looking up m_Name
invoker_uses_begin(m_Name, T, attrs, visitor) ==
    LET it == IF DOMAIN attrs = {} THEN end
              ELSE CHOOSE n \in DOMAIN attrs : TRUE
    IN IF it # end
       THEN LET r == attribute_value_visit(attrs[it], T, visitor)
            IN IF r.exc.kind = "exception"
               THEN Outcome("none", r.calls,
                            attach_attribute_name_info(r.exc, m_Name),
                            attrs, 1, 1)
               ELSE IF r.exc.kind # "none"
               THEN Outcome("none", r.calls, r.exc, attrs, 1, 1)
               ELSE IF r.matched
               THEN Outcome("ok", r.calls, NoExc, attrs, 1, 1)
               ELSE Outcome("value_has_invalid_type", r.calls, NoExc, attrs, 1, 1)
       ELSE Outcome("value_not_found", <<>>, NoExc, attrs, 1, 0)

\* the invoker looking the name up with an inserting subscript: an absent
\* name gets an empty attribute_value
invoker_inserts(m_Name, T, attrs, visitor) ==
    LET after == [n \in DOMAIN attrs \cup {m_Name} |->
                     IF n \in DOMAIN attrs THEN attrs[n] ELSE EmptyValue]
        it == find(attrs, m_Name)
    IN IF it # end
       THEN LET r == attribute_value_visit(attrs[it], T, visitor)
            IN IF r.exc.kind = "exception"
               THEN Outcome("none", r.calls,
                            attach_attribute_name_info(r.exc, m_Name),
                            attrs, 1, 1)
               ELSE IF r.exc.kind # "none"
               THEN Outcome("none", r.calls, r.exc, attrs, 1, 1)
               ELSE IF r.matched
               THEN Outcome("ok", r.calls, NoExc, attrs, 1, 1)
               ELSE Outcome("value_has_invalid_type", r.calls, NoExc, attrs, 1, 1)
       ELSE Outcome("value_not_found", <<>>, NoExc, after, 1, 0)

\* the invoker rethrowing without attaching the attribute name
invoker_no_attach(m_Name, T, attrs, visitor) ==
    LET it == find(attrs, m_Name)
    IN IF it # end
       THEN LET r == attribute_value_visit(attrs[it], T, visitor)
            IN IF r.exc.kind # "none"
               THEN Outcome("none", r.calls, r.exc, attrs, 1, 1)
               ELSE IF r.matched
               THEN Outcome("ok", r.calls, NoExc, attrs, 1, 1)
               ELSE Outcome("value_has_invalid_type", r.calls, NoExc, attrs, 1, 1)
       ELSE Outcome("value_not_found", <<>>, NoExc, attrs, 1, 0)

\* the invoker with a handler that swallows the error and reports a code
invoker_swallows(m_Name, T, attrs, visitor) ==
    LET it == find(attrs, m_Name)
    IN IF it # end
       THEN LET r == attribute_value_visit(attrs[it], T, visitor)
            IN IF r.exc.kind # "none"
               THEN Outcome("value_has_invalid_type", r.calls, NoExc, attrs, 1, 1)
               ELSE IF r.matched
               THEN Outcome("ok", r.calls, NoExc, attrs, 1, 1)
               ELSE Outcome("value_has_invalid_type", r.calls, NoExc, attrs, 1, 1)
       ELSE Outcome("value_not_found", <<>>, NoExc, attrs, 1, 0)

\* the invoker dispatching on the first candidate type only
invoker_first_type_only(m_Name, T, attrs, visitor) ==
    LET it == find(attrs, m_Name)
    IN IF it # end
       THEN LET r == attribute_value_visit(attrs[it], <<Head(T)>>, visitor)
            IN IF r.exc.kind = "exception"
               THEN Outcome("none", r.calls,
                            attach_attribute_name_info(r.exc, m_Name),
                            attrs, 1, 1)
               ELSE IF r.exc.kind # "none"
               THEN Outcome("none", r.calls, r.exc, attrs, 1, 1)
               ELSE IF r.matched
               THEN Outcome("ok", r.calls, NoExc, attrs, 1, 1)
               ELSE Outcome("value_has_invalid_type", r.calls, NoExc, attrs, 1, 1)
       ELSE Outcome("value_not_found", <<>>, NoExc, attrs, 1, 0)

\* the invoker looking the name up once per candidate type and visiting the
\* entry once per candidate type
invoker_lookup_per_type(m_Name, T, attrs, visitor) ==
    LET it == find(attrs, m_Name)
    IN IF it # end
       THEN LET r == attribute_value_visit(attrs[it], T, visitor)
            IN IF r.exc.kind = "exception"
               THEN Outcome("none", r.calls,
                            attach_attribute_name_info(r.exc, m_Name),
                            attrs, Len(T), Len(T))
               ELSE IF r.exc.kind # "none"
               THEN Outcome("none", r.calls, r.exc, attrs, Len(T), Len(T))
               ELSE IF r.matched
               THEN Outcome("ok", r.calls, NoExc, attrs, Len(T), Len(T))
               ELSE Outcome("value_has_invalid_type", r.calls, NoExc, attrs,
                            Len(T), Len(T))
       ELSE Outcome("value_not_found", <<>>, NoExc, attrs, Len(T), 0)

\* value_visitor_invoker< T >::operator() (attribute_values_view const&, VisitorT)
value_visitor_invoker(m_Name, T, attrs, visitor) ==
    LET it == find(attrs, m_Name)
    IN IF it # end
       THEN LET r == attribute_value_visit(attrs[it], T, visitor)
            IN IF r.exc.kind = "exception"
               THEN \* catch (exception& e): attach the name and rethrow
                    Outcome("none", r.calls,
                            attach_attribute_name_info(r.exc, m_Name),
                            attrs, 1, 1)
               ELSE IF r.exc.kind # "none"
               THEN \* not caught by the handler: propagates as thrown
                    Outcome("none", r.calls, r.exc, attrs, 1, 1)
               ELSE IF r.matched
               THEN Outcome("ok", r.calls, NoExc, attrs, 1, 1)
               ELSE Outcome("value_has_invalid_type", r.calls, NoExc, attrs, 1, 1)
       ELSE Outcome("value_not_found", <<>>, NoExc, attrs, 1, 0)

\* value_visitor_invoker< T >::operator() (record const&, VisitorT)
value_visitor_invoker_record(m_Name, T, r, visitor) ==
    value_visitor_invoker(m_Name, T, attribute_values(r), visitor)

\* visit< T >(name, attrs, visitor)
visit(name, T, attrs, visitor) ==
    value_visitor_invoker(name, T, attrs, visitor)

\* the free function building its invoker from a default-constructed name
visit_record_unnamed(name, T, r, visitor) ==
    value_visitor_invoker_record(NoName, T, r, visitor)

\* visit< T >(name, rec, visitor)
visit_record(name, T, r, visitor) ==
    value_visitor_invoker_record(name, T, r, visitor)

(* ---------------------------------------------------------------------- *)
(* value_extractor and the fallback policies                               *)
(* ---------------------------------------------------------------------- *)

fallback_to_none == [kind |-> "fallback_to_none", def_val |-> EmptyValue]

fallback_to_throw == [kind |-> "fallback_to_throw", def_val |-> EmptyValue]

fallback_to_default(def_val) ==
    [kind |-> "fallback_to_default", def_val |-> def_val]

\* the three-state extraction result: one lookup, one type dispatch with an
\* internal visitor that captures the matched value
extract(name, T, attrs) ==
    LET it == find(attrs, name)
    IN IF it = end
       THEN [state |-> "not_found", value |-> EmptyValue]
       ELSE LET r == attribute_value_visit(attrs[it], T, "nop")
            IN IF r.matched
               THEN [state |-> "found", value |-> r.calls[1]]
               ELSE [state |-> "wrong_type", value |-> EmptyValue]

\* value_extractor< T, FallbackPolicyT >::operator() (name, attrs): the
\* extraction result with the fallback policy applied to the two failures
value_extractor(T, policy, name, attrs) ==
    LET e == extract(name, T, attrs)
    IN IF e.state = "found"
       THEN [state |-> e.state, empty |-> FALSE, value |-> e.value,
             exc |-> NoExc, attrs |-> attrs]
       ELSE CASE policy.kind = "fallback_to_default" ->
                    [state |-> e.state, empty |-> FALSE,
                     value |-> policy.def_val, exc |-> NoExc, attrs |-> attrs]
              [] policy.kind = "fallback_to_throw" ->
                    [state |-> e.state, empty |-> TRUE, value |-> EmptyValue,
                     exc |-> [kind |-> IF e.state = "not_found"
                                       THEN "missing_value"
                                       ELSE "invalid_type",
                              name |-> name],
                     attrs |-> attrs]
              [] OTHER ->
                    [state |-> e.state, empty |-> TRUE, value |-> EmptyValue,
                     exc |-> NoExc, attrs |-> attrs]

(* ---------------------------------------------------------------------- *)
(* expressions: attribute_terminal, keyword_terminal, attribute_keyword    *)
(* ---------------------------------------------------------------------- *)

\* aux::extractor_adapter< value_extractor< T, FallbackPolicyT > >
\* constructed from (name): the policy is default constructed
extractor_adapter(T, policy, name) ==
    [m_name |-> name, T |-> T, policy |-> policy]

\* extractor_adapter constructed from (name, arg1): arg1 goes to the base
extractor_adapter_arg(T, name, arg1) ==
    [m_name |-> name, T |-> T, policy |-> fallback_to_default(arg1)]

\* extractor_adapter::get_name / attribute_terminal::get_name
get_name(terminal) == terminal.m_name

\* extractor_adapter::operator() (args): forwards the stored name and the
\* first argument of the call to the extractor
extractor_adapter_call(terminal, args) ==
    value_extractor(terminal.T, terminal.policy, terminal.m_name, args[1])

\* attr with fallback_to_throw as the default policy
attr_throwing(T, name) == extractor_adapter(T, fallback_to_throw, name)

\* attr< AttributeValueT >(name): FallbackPolicyT defaults to fallback_to_none
attr(T, name) == extractor_adapter(T, fallback_to_none, name)

\* attribute_terminal::or_none
or_none(terminal) ==
    extractor_adapter(terminal.T, fallback_to_none, get_name(terminal))

\* or_throw building its terminal with the policy of or_none
or_throw_as_none(terminal) ==
    extractor_adapter(terminal.T, fallback_to_none, get_name(terminal))

\* attribute_terminal::or_throw
or_throw(terminal) ==
    extractor_adapter(terminal.T, fallback_to_throw, get_name(terminal))

\* or_default that does not pass def_val on: the policy holds a value
\* initialized default
or_default_dropped(terminal, def_val) ==
    extractor_adapter_arg(terminal.T, get_name(terminal),
                          [type |-> def_val.type, value |-> 0])

\* attribute_terminal::or_default
or_default(terminal, def_val) ==
    extractor_adapter_arg(terminal.T, get_name(terminal), def_val)

\* keyword descriptors declared by BOOST_LOG_DECLARE_ATTRIBUTE_KEYWORD_TYPE
Descriptors == [name_ : Names, value_type : value_types]

\* descriptor_type::get_name
descriptor_get_name(descriptor) == descriptor.name_

\* keyword_terminal< DescriptorT >::operator() (env)
keyword_terminal(descriptor, env) ==
    value_extractor(descriptor.value_type, fallback_to_none,
                    descriptor_get_name(descriptor), env[1])

\* attribute_keyword::or_none
keyword_or_none(descriptor) ==
    extractor_adapter(descriptor.value_type, fallback_to_none,
                      descriptor_get_name(descriptor))

\* attribute_keyword::or_throw
keyword_or_throw(descriptor) ==
    extractor_adapter(descriptor.value_type, fallback_to_throw,
                      descriptor_get_name(descriptor))

\* attribute_keyword::or_default
keyword_or_default(descriptor, def_val) ==
    extractor_adapter_arg(descriptor.value_type,
                          descriptor_get_name(descriptor), def_val)

(* ---------------------------------------------------------------------- *)
(* State machine                                                           *)
(* ---------------------------------------------------------------------- *)

NoCall == [op |-> "none"]

\* no value set is being merged
NoMerge == [phase |-> "none"]

\* no formatter object exists
NoFormatters == [phase |-> "none"]

\* the name registry is not in use
NoRegistry == [phase |-> "none"]

\* no formatting stream exists
NoStream == [phase |-> "none"]

\* no record stream exists
NoRecordStream == [phase |-> "none"]

\* no event composer exists
NoComposer == [phase |-> "none"]

\* no logging statement is being executed
NoPump == [phase |-> "none"]

\* the stream, sink and source sub-models are not in use
IoIdle ==
    /\ fos = NoStream
    /\ ros = NoRecordStream
    /\ composer = NoComposer
    /\ pump = NoPump

Init ==
    /\ rec = [values |-> EmptyView, state |-> "building"]
    /\ last = NoCall
    /\ merge = NoMerge
    /\ registry = NoRegistry
    /\ IoIdle
    /\ fmt = NoFormatters

\* record assembly: one attribute value is inserted under a new name
AddAttribute ==
    /\ rec.state = "building"
    /\ \E n \in Names \ DOMAIN rec.values, v \in attribute_value :
          rec' = [rec EXCEPT !.values =
                     [m \in DOMAIN rec.values \cup {n} |->
                         IF m = n THEN v ELSE rec.values[m]]]
    /\ UNCHANGED <<last, merge, registry, fmt, io>>

\* the record is opened: its view becomes visible to consumers
OpenRecord ==
    /\ rec.state = "building"
    /\ rec' = [rec EXCEPT !.state = "open"]
    /\ UNCHANGED <<last, merge, registry, fmt, io>>

\* the record is closed or discarded: its value set is destroyed
CloseRecord ==
    /\ rec.state = "open"
    /\ rec' = [values |-> EmptyView, state |-> "closed"]
    /\ last' = NoCall
    /\ UNCHANGED <<merge, registry, fmt, io>>

Visitation(op, name, T, visitor, res) ==
    /\ last' = [op |-> op, name |-> name, types |-> T, visitor |-> visitor,
                before |-> rec.values, res |-> res]
    /\ rec' = [rec EXCEPT !.values = res.attrs]
    /\ UNCHANGED <<merge, registry, fmt, io>>

InvokeOnView ==
    /\ rec.state = "open"
    /\ \E name \in Names, T \in value_types, visitor \in Visitors :
          Visitation("invoke_attrs", name, T, visitor,
                     value_visitor_invoker(name, T, attribute_values(rec), visitor))

InvokeOnRecord ==
    /\ rec.state = "open"
    /\ \E name \in Names, T \in value_types, visitor \in Visitors :
          Visitation("invoke_record", name, T, visitor,
                     value_visitor_invoker_record(name, T, rec, visitor))

VisitOnView ==
    /\ rec.state = "open"
    /\ \E name \in Names, T \in value_types, visitor \in Visitors :
          Visitation("visit_attrs", name, T, visitor,
                     visit(name, T, attribute_values(rec), visitor))

VisitOnRecord ==
    /\ rec.state = "open"
    /\ \E name \in Names, T \in value_types, visitor \in Visitors :
          Visitation("visit_record", name, T, visitor,
                     visit_record(name, T, rec, visitor))

Extraction(op, terminal, def_val, res) ==
    /\ last' = [op |-> op, name |-> terminal.m_name, types |-> terminal.T,
                terminal |-> terminal, def_val |-> def_val,
                before |-> rec.values, res |-> res]
    /\ rec' = [rec EXCEPT !.values = res.attrs]
    /\ UNCHANGED <<merge, registry, fmt, io>>

\* a filter or formatter evaluates attr< T >(name)
EvalAttr ==
    /\ rec.state = "open"
    /\ \E name \in Names, T \in value_types :
          LET terminal == attr(T, name)
          IN Extraction("attr", terminal, EmptyValue,
                 extractor_adapter_call(terminal, <<attribute_values(rec)>>))

\* a filter or formatter evaluates a keyword used directly
EvalKeyword ==
    /\ rec.state = "open"
    /\ \E descriptor \in Descriptors :
          Extraction("keyword",
                 keyword_or_none(descriptor), EmptyValue,
                 keyword_terminal(descriptor, <<attribute_values(rec)>>))

\* a filter or formatter evaluates attr< T >(name).or_default(def_val)
EvalOrDefault ==
    /\ rec.state = "open"
    /\ \E name \in Names, T \in value_types, def_val \in Values :
          LET terminal == or_default(attr(T, name), def_val)
          IN Extraction("or_default", terminal, def_val,
                 extractor_adapter_call(terminal, <<attribute_values(rec)>>))

\* a filter or formatter evaluates keyword.or_default(def_val)
EvalKeywordOrDefault ==
    /\ rec.state = "open"
    /\ \E descriptor \in Descriptors, def_val \in Values :
          LET terminal == keyword_or_default(descriptor, def_val)
          IN Extraction("keyword_or_default", terminal, def_val,
                 extractor_adapter_call(terminal, <<attribute_values(rec)>>))

\* a filter or formatter evaluates attr< T >(name).or_throw()
EvalOrThrow ==
    /\ rec.state = "open"
    /\ \E name \in Names, T \in value_types :
          LET terminal == or_throw(attr(T, name))
          IN Extraction("or_throw", terminal, EmptyValue,
                 extractor_adapter_call(terminal, <<attribute_values(rec)>>))

\* a filter or formatter evaluates keyword.or_throw()
EvalKeywordOrThrow ==
    /\ rec.state = "open"
    /\ \E descriptor \in Descriptors :
          LET terminal == keyword_or_throw(descriptor)
          IN Extraction("keyword_or_throw", terminal, EmptyValue,
                 extractor_adapter_call(terminal, <<attribute_values(rec)>>))

Next ==
    \/ AddAttribute
    \/ OpenRecord
    \/ CloseRecord
    \/ InvokeOnView
    \/ InvokeOnRecord
    \/ VisitOnView
    \/ VisitOnRecord
    \/ EvalAttr
    \/ EvalKeyword
    \/ EvalOrDefault
    \/ EvalKeywordOrDefault
    \/ EvalOrThrow
    \/ EvalKeywordOrThrow

Spec == Init /\ [][Next]_vars

(* ---------------------------------------------------------------------- *)
(* Construction of a value set from the attribute sources                  *)
(* ---------------------------------------------------------------------- *)

\* the attribute sources and their precedence: record-local over
\* thread-local over global
Sources == {"global", "thread", "record"}

Precedence(src) ==
    CASE src = "global" -> 1
      [] src = "thread" -> 2
      [] src = "record" -> 3

\* the attribute values a source can hold
SourceValues == {v \in Values : v.type = "int"}

\* an attribute set of one source
AttributeSets == UNION {[D -> SourceValues] : D \in SUBSET Names}

\* one source is merged with later insertions always overwriting
merge_last_wins(values, origin, set, src) ==
    [values |-> [n \in DOMAIN values \cup DOMAIN set |->
                    IF n \in DOMAIN set THEN set[n] ELSE values[n]],
     origin |-> [n \in DOMAIN values \cup DOMAIN set |->
                    IF n \in DOMAIN set THEN src ELSE origin[n]]]

\* one source is merged into the value set under construction: an entry is
\* inserted when its name is new, and replaces the entry of a source of
\* lower precedence
merge_source(values, origin, set, src) ==
    LET wins(n) == /\ n \in DOMAIN set
                   /\ (n \in DOMAIN values
                         => Precedence(origin[n]) < Precedence(src))
    IN [values |-> [n \in DOMAIN values \cup DOMAIN set |->
                       IF wins(n) THEN set[n] ELSE values[n]],
        origin |-> [n \in DOMAIN values \cup DOMAIN set |->
                       IF wins(n) THEN src ELSE origin[n]]]

InitMerge ==
    /\ rec = [values |-> EmptyView, state |-> "building"]
    /\ last = NoCall
    /\ registry = NoRegistry
    /\ fmt = NoFormatters
    /\ IoIdle
    /\ \E g \in AttributeSets, t \in AttributeSets, r \in AttributeSets :
          merge = [phase |-> "merging",
                   sets |-> [src \in Sources |->
                               CASE src = "global" -> g
                                 [] src = "thread" -> t
                                 [] src = "record" -> r],
                   done |-> {},
                   values |-> EmptyView,
                   origin |-> [n \in {} |-> "global"]]

\* one more source is merged, in any order
MergeSource ==
    /\ merge.phase = "merging"
    /\ \E src \in Sources \ merge.done :
          LET m == merge_source(merge.values, merge.origin,
                                merge.sets[src], src)
          IN merge' = [merge EXCEPT !.values = m.values,
                                    !.origin = m.origin,
                                    !.done = merge.done \cup {src}]
    /\ UNCHANGED <<rec, last, registry, fmt, io>>

\* all sources are merged: the set is complete and fixed
FinishMerge ==
    /\ merge.phase = "merging"
    /\ merge.done = Sources
    /\ merge' = [merge EXCEPT !.phase = "built"]
    /\ UNCHANGED <<rec, last, registry, fmt, io>>

NextMerge ==
    \/ MergeSource
    \/ FinishMerge

SpecMerge == InitMerge /\ [][NextMerge]_vars

(* ---------------------------------------------------------------------- *)
(* The attribute name registry                                             *)
(* ---------------------------------------------------------------------- *)

\* the threads that create attribute names
Threads == {"t1", "t2"}

\* the strings attribute names are created from: the names of the keyword
\* descriptors
Strings == {descriptor_get_name(d) : d \in Descriptors}

\* the lock of the registry is held by no thread
Free == "free"

\* a lookup that never finds the string
search_none(table, str) == 0

\* the identifier of str in the table, 0 when it is not registered
search(table, str) ==
    IF \E i \in 1 .. Len(table) : table[i] = str
    THEN CHOOSE i \in 1 .. Len(table) : table[i] = str
    ELSE 0

\* a lock that every thread can take at any time
can_lock_always(lock, t) == TRUE

\* the lock can be taken by thread t
can_lock(lock, t) == lock = Free

InitIntern ==
    /\ rec = [values |-> EmptyView, state |-> "building"]
    /\ last = NoCall
    /\ merge = NoMerge
    /\ fmt = NoFormatters
    /\ IoIdle
    /\ registry = [phase |-> "running",
                   table |-> <<>>,
                   lock |-> Free,
                   pc |-> [t \in Threads |-> "idle"],
                   arg |-> [t \in Threads |-> NoName],
                   result |-> [t \in Threads |-> 0],
                   issued |-> {}]

\* thread t constructs attribute_name(str), as a keyword's get_name does on
\* each call
InternCall(t) ==
    /\ registry.pc[t] = "idle"
    /\ \E str \in Strings :
          registry' = [registry EXCEPT !.pc[t] = "acquire", !.arg[t] = str,
                                       !.result[t] = 0]
    /\ UNCHANGED <<rec, last, merge, fmt, io>>

\* thread t takes the lock of the registry
InternAcquire(t) ==
    /\ registry.pc[t] = "acquire"
    /\ can_lock(registry.lock, t)
    /\ registry' = [registry EXCEPT !.pc[t] = "search", !.lock = t]
    /\ UNCHANGED <<rec, last, merge, fmt, io>>

\* thread t looks its string up in the table
InternSearch(t) ==
    /\ registry.pc[t] = "search"
    /\ LET id == search(registry.table, registry.arg[t])
       IN registry' =
             IF id # 0
             THEN [registry EXCEPT !.pc[t] = "release", !.result[t] = id]
             ELSE [registry EXCEPT !.pc[t] = "insert"]
    /\ UNCHANGED <<rec, last, merge, fmt, io>>

\* thread t registers its string under the next identifier
InternInsert(t) ==
    /\ registry.pc[t] = "insert"
    /\ registry' = [registry EXCEPT
                       !.table = Append(registry.table, registry.arg[t]),
                       !.result[t] = Len(registry.table) + 1,
                       !.pc[t] = "release"]
    /\ UNCHANGED <<rec, last, merge, fmt, io>>

\* thread t releases the lock
InternRelease(t) ==
    /\ registry.pc[t] = "release"
    /\ registry' = [registry EXCEPT !.lock = Free, !.pc[t] = "return"]
    /\ UNCHANGED <<rec, last, merge, fmt, io>>

\* the call of thread t returns its identifier
InternReturn(t) ==
    /\ registry.pc[t] = "return"
    /\ registry' = [registry EXCEPT
                       !.issued = registry.issued
                                    \cup {<<registry.arg[t], registry.result[t]>>},
                       !.pc[t] = "idle"]
    /\ UNCHANGED <<rec, last, merge, fmt, io>>

\* the steps of a call in progress
InternStep(t) ==
    \/ InternSearch(t)
    \/ InternInsert(t)
    \/ InternRelease(t)
    \/ InternReturn(t)

NextIntern ==
    \/ \E t \in Threads : InternCall(t)
    \/ \E t \in Threads : InternAcquire(t)
    \/ \E t \in Threads : InternSearch(t)
    \/ \E t \in Threads : InternInsert(t)
    \/ \E t \in Threads : InternRelease(t)
    \/ \E t \in Threads : InternReturn(t)

\* a thread in a call keeps running, and a thread waiting for a lock that is
\* released again and again gets it
SpecIntern ==
    /\ InitIntern
    /\ [][NextIntern]_vars
    /\ \A t \in Threads : WF_vars(InternStep(t)) /\ SF_vars(InternAcquire(t))

(* ---------------------------------------------------------------------- *)
(* basic_formatter                                                         *)
(* ---------------------------------------------------------------------- *)

\* the formatter objects of the program
Formatters == {"f", "g"}

\* function objects a formatter can be initialized with or assigned
Funs == {"fun1", "fun2"}

\* a light_function that holds no function (moved from)
EmptyFunction == "empty"

\* expressions::tag::message: the name and the value type of the message
message == [name_ |-> "Message", value_type |-> <<"string">>]

\* what a formatting call does: the values written to the stream, the error
\* leaving the call, and whether the call had defined behaviour
Written(out, exc, defined) == [out |-> out, exc |-> exc, defined |-> defined]

\* default_formatter::default_formatter and default_formatter::operator():
\* the message is visited with a visitor that writes it to the stream; the
\* visitation result is dropped
default_formatter(r) ==
    LET m_MessageName == descriptor_get_name(message)
        v == visit_record(m_MessageName, message.value_type, r, "nop")
    IN Written(v.calls, v.exc, TRUE)

\* a function object supplied by the user: writes its own text
user_formatter(fun, r) ==
    Written(<<[type |-> "string", value |-> fun]>>, NoExc, TRUE)

\* basic_formatter::operator(): calls m_Formatter; calling a light_function
\* that holds no function has undefined behaviour
formatter_call(m_Formatter, r) ==
    CASE m_Formatter = "default_formatter" -> {default_formatter(r)}
      [] m_Formatter \in Funs              -> {user_formatter(m_Formatter, r)}
      [] OTHER -> {Written(<<>>, NoExc, FALSE),
                   Written(<<>>, [kind |-> "other", name |-> NoName], FALSE)}

\* reset that leaves the formatter function as it is
reset_keeps(m_Formatter) == m_Formatter

\* basic_formatter::reset: m_Formatter = default_formatter()
reset(m_Formatter) == "default_formatter"

InitFormatter ==
    /\ \E attrs \in attribute_values_view :
          rec = [values |-> attrs, state |-> "open"]
    /\ last = NoCall
    /\ merge = NoMerge
    /\ registry = NoRegistry
    /\ IoIdle
    /\ \E fun \in Funs :
          \* f is default constructed, g is initialized with fun
          fmt = [phase |-> "running",
                 m_Formatter |-> [x \in Formatters |->
                                    IF x = "f" THEN "default_formatter"
                                    ELSE fun],
                 fresh |-> [x \in Formatters |-> x = "f"],
                 last |-> NoCall]

Others == <<rec, last, merge, registry, io>>

\* x = fun (initializing assignment): this_type(fun).swap(*this)
FormatterAssignFun ==
    /\ fmt.phase = "running"
    /\ \E x \in Formatters, fun \in Funs :
          fmt' = [fmt EXCEPT !.m_Formatter[x] = fun, !.fresh[x] = FALSE,
                             !.last = NoCall]
    /\ UNCHANGED Others

\* x = y (copy assignment): m_Formatter = that.m_Formatter
FormatterCopyAssign ==
    /\ fmt.phase = "running"
    /\ \E x \in Formatters : \E y \in Formatters \ {x} :
          fmt' = [fmt EXCEPT !.m_Formatter[x] = fmt.m_Formatter[y],
                             !.fresh[x] = FALSE, !.last = NoCall]
    /\ UNCHANGED Others

\* x = move(y) (move assignment) and x.swap(y): the functions are swapped
FormatterSwap ==
    /\ fmt.phase = "running"
    /\ \E x \in Formatters : \E y \in Formatters \ {x} :
          fmt' = [fmt EXCEPT !.m_Formatter[x] = fmt.m_Formatter[y],
                             !.m_Formatter[y] = fmt.m_Formatter[x],
                             !.fresh[x] = FALSE, !.fresh[y] = FALSE,
                             !.last = NoCall]
    /\ UNCHANGED Others

\* x is constructed anew from move(y) (move constructor): y is left without
\* a function
FormatterMoveConstruct ==
    /\ fmt.phase = "running"
    /\ \E x \in Formatters : \E y \in Formatters \ {x} :
          fmt' = [fmt EXCEPT !.m_Formatter[x] = fmt.m_Formatter[y],
                             !.m_Formatter[y] = EmptyFunction,
                             !.fresh[x] = FALSE, !.fresh[y] = FALSE,
                             !.last = NoCall]
    /\ UNCHANGED Others

\* x.reset()
FormatterReset ==
    /\ fmt.phase = "running"
    /\ \E x \in Formatters :
          fmt' = [fmt EXCEPT !.m_Formatter[x] = reset(fmt.m_Formatter[x]),
                             !.fresh[x] = TRUE, !.last = NoCall]
    /\ UNCHANGED Others

\* x(rec, strm) on an empty stream
FormatterCall ==
    /\ fmt.phase = "running"
    /\ \E x \in Formatters :
          \E w \in formatter_call(fmt.m_Formatter[x], rec) :
             fmt' = [fmt EXCEPT !.last = [op |-> "format", formatter |-> x,
                                          fresh |-> fmt.fresh[x], res |-> w]]
    /\ UNCHANGED Others

NextFormatter ==
    \/ FormatterAssignFun
    \/ FormatterCopyAssign
    \/ FormatterSwap
    \/ FormatterMoveConstruct
    \/ FormatterReset
    \/ FormatterCall

SpecFormatter == InitFormatter /\ [][NextFormatter]_vars

(* ---------------------------------------------------------------------- *)
(* basic_formatting_ostream (utility/formatting_stream.hpp)                *)
(* ---------------------------------------------------------------------- *)

\* most characters one run writes to a stream
MaxChars == 2

\* the variables of the attribute, merge, registry and formatter sub-models
core == <<rec, last, merge, registry, fmt>>

\* those sub-models are not in use
CoreIdle ==
    /\ rec = [values |-> EmptyView, state |-> "building"]
    /\ last = NoCall
    /\ merge = NoMerge
    /\ registry = NoRegistry
    /\ fmt = NoFormatters

\* the strings a stream can be attached to
StringIds == {"s1", "s2"}

\* the null storage pointer
NULL == "NULL"

\* characters of the stream's own character type
char_type == {"a", "b"}

\* characters of the other character type
OtherCharT == {"La", "Lb"}

\* aux::code_convert on one character: the character of the stream's type
\* that the other-typed character converts to
code_convert(w) == IF w = "La" THEN "a" ELSE "b"

\* std::ios_base::iostate values, as sets of bits
goodbit == {}
badbit == {"badbit"}
failbit == {"failbit"}

\* std::basic_ios::good
good(s) == s.state = goodbit

\* std::basic_ios::fail: failbit or badbit is set
fail(s) == s.state \cap (failbit \cup badbit) # {}

\* std::basic_ios::clear(state): the state is replaced
clear(s, state) == [s EXCEPT !.state = state]

\* the stream buffer writes its buffered characters to the attached string
sync(s) ==
    IF s.storage # NULL
    THEN [s EXCEPT !.strings[s.storage] = @ \o s.buf, !.buf = <<>>]
    ELSE s

\* streambuf_type::storage
storage(s) == s.storage

\* streambuf_type::attach(str)
streambuf_attach(s, str) == [sync(s) EXCEPT !.storage = str]

\* streambuf_type::detach
streambuf_detach(s) == [sync(s) EXCEPT !.storage = NULL]

\* basic_formatting_ostream::init_stream
init_stream(s) == clear(s, IF storage(s) # NULL THEN goodbit ELSE badbit)

\* a stream buffer before its stream is initialized
streambuf_type(strings, str) ==
    [storage |-> str, strings |-> strings, buf |-> <<>>, state |-> badbit]

\* basic_formatting_ostream()
basic_formatting_ostream(strings) == init_stream(streambuf_type(strings, NULL))

\* basic_formatting_ostream(string_type& str)
basic_formatting_ostream_str(strings, str) ==
    init_stream(streambuf_type(strings, str))

\* basic_formatting_ostream::attach
attach(s, str) == clear(streambuf_attach(s, str), goodbit)

\* detach leaving the stream state as it was
detach_keeps_state(s) == streambuf_detach(s)

\* basic_formatting_ostream::detach
detach(s) == clear(streambuf_detach(s), badbit)

\* basic_formatting_ostream::flush
flush(s) == sync(s)

\* basic_formatting_ostream::write(const char_type*, size) with one character:
\* a good stream buffers the character; on a stream that is not good nothing
\* is written and the sentry may set failbit
write(s, c) ==
    IF good(s)
    THEN {[s EXCEPT !.buf = Append(@, c)]}
    ELSE {s, [s EXCEPT !.state = @ \cup failbit]}

\* the result of a converting write: the stream, and how the call ended
Converted(s, ended) == [strm |-> s, ended |-> ended]

\* basic_formatting_ostream::write(const OtherCharT*, size) with one character:
\* flush, then the assertion on the storage pointer, then code_convert into
\* the storage. With a null storage the assertion fails, and a build without
\* assertions dereferences the null pointer.
write_converting(s, w) ==
    LET f == flush(s)
    IN IF storage(f) # NULL
       THEN {Converted([f EXCEPT !.strings[storage(f)] =
                           Append(@, code_convert(w))], "returned")}
       ELSE {Converted(f, "assertion_failed"), Converted(f, "null_dereference")}

\* the characters held by the stream and its strings
CharCount(s) ==
    Len(s.buf) + Len(s.strings["s1"]) + Len(s.strings["s2"])

\* one call on the stream: the operation, its argument, the stream before
\* the call and how the call ended
StreamCall(op, arg, before, ended) ==
    [op |-> op, arg |-> arg, before |-> before, ended |-> ended]

\* the stream after a call that returned
StreamStep(op, arg, s) ==
    fos' = [fos EXCEPT !.s = s,
                       !.last = StreamCall(op, arg, fos.s, "returned")]

InitStream ==
    /\ CoreIdle
    /\ ros = NoRecordStream
    /\ composer = NoComposer
    /\ pump = NoPump
    /\ \E str \in StringIds \cup {NULL} :
          LET strings == [x \in StringIds |-> <<>>]
              before == streambuf_type(strings, str)
          IN fos = [phase |-> "running",
                    s |-> IF str = NULL
                          THEN basic_formatting_ostream(strings)
                          ELSE basic_formatting_ostream_str(strings, str),
                    last |-> StreamCall("construct", str, before, "returned")]

StreamAttach ==
    /\ fos.phase = "running"
    /\ \E str \in StringIds : StreamStep("attach", str, attach(fos.s, str))
    /\ UNCHANGED <<core, ros, composer, pump>>

StreamDetach ==
    /\ fos.phase = "running"
    /\ StreamStep("detach", NULL, detach(fos.s))
    /\ UNCHANGED <<core, ros, composer, pump>>

StreamFlush ==
    /\ fos.phase = "running"
    /\ StreamStep("flush", NULL, flush(fos.s))
    /\ UNCHANGED <<core, ros, composer, pump>>

StreamWrite ==
    /\ fos.phase = "running"
    /\ CharCount(fos.s) < MaxChars
    /\ \E c \in char_type : \E s \in write(fos.s, c) :
          StreamStep("write", c, s)
    /\ UNCHANGED <<core, ros, composer, pump>>

\* a converting write that finds no storage ends the run
StreamWriteConverting ==
    /\ fos.phase = "running"
    /\ CharCount(fos.s) < MaxChars
    /\ \E w \in OtherCharT : \E r \in write_converting(fos.s, w) :
          fos' = [phase |-> IF r.ended = "returned" THEN "running" ELSE r.ended,
                  s |-> r.strm,
                  last |-> StreamCall("write_converting", w, fos.s, r.ended)]
    /\ UNCHANGED <<core, ros, composer, pump>>

\* ~basic_formatting_ostream: flush
StreamDestroy ==
    /\ fos.phase = "running"
    /\ fos' = [phase |-> "destroyed",
               s |-> flush(fos.s),
               last |-> StreamCall("destroy", NULL, fos.s, "returned")]
    /\ UNCHANGED <<core, ros, composer, pump>>

NextStream ==
    \/ StreamAttach
    \/ StreamDetach
    \/ StreamFlush
    \/ StreamWrite
    \/ StreamWriteConverting
    \/ StreamDestroy

SpecStream == InitStream /\ [][NextStream]_vars

(* ---------------------------------------------------------------------- *)
(* basic_record_ostream (sources/record_ostream.hpp)                       *)
(* ---------------------------------------------------------------------- *)

\* the records a stream can adopt
Records == {"r1", "r2"}

\* the invalid record handle
InvalidRecord == "invalid"

\* !!rec: the handle refers to a record
valid(r) == r # InvalidRecord

\* the string that holds the message text of a record
message_string(r) == IF r = "r1" THEN "s1" ELSE "s2"

\* a record stream: the formatting stream it derives from, and m_Record
RecordStream(s, m_Record) == [s |-> s, m_Record |-> m_Record]

\* basic_record_ostream::init_stream: a valid record's message string is
\* attached to the stream
record_init_stream(o) ==
    IF valid(o.m_Record)
    THEN [o EXCEPT !.s = attach(o.s, message_string(o.m_Record))]
    ELSE o

\* basic_record_ostream::detach_from_record: the stream is reset into the
\* detached (default initialized) state
detach_from_record(o) ==
    IF valid(o.m_Record)
    THEN [o EXCEPT !.s = detach(o.s), !.m_Record = InvalidRecord]
    ELSE o

\* basic_record_ostream()
basic_record_ostream(strings) ==
    RecordStream(basic_formatting_ostream(strings), InvalidRecord)

\* basic_record_ostream(record const& rec)
basic_record_ostream_rec(strings, r) ==
    record_init_stream(RecordStream(basic_formatting_ostream(strings), r))

\* operator! answering as the conversion to bool does
record_ostream_operator_bool(o) == valid(o.m_Record) /\ ~fail(o.s)

\* basic_record_ostream::operator!
record_ostream_operator_not(o) == (~valid(o.m_Record)) \/ fail(o.s)

\* basic_record_ostream::get_record: the stream after the flush
get_record(o) == [o EXCEPT !.s = flush(o.s)]

\* set_record without the final init_stream
set_record_no_init(o, r) ==
    [detach_from_record(o) EXCEPT !.m_Record = r]

\* basic_record_ostream::set_record
set_record(o, r) ==
    LET detached == detach_from_record(o)
        swapped == [detached EXCEPT !.m_Record = r]
    IN record_init_stream(swapped)

\* one call on the record stream: the operation, its argument, the stream
\* before the call and what the call returned
RecordStreamCall(op, arg, before, result) ==
    [op |-> op, arg |-> arg, before |-> before, result |-> result]

\* the record stream after a call
RecordStreamStep(op, arg, o, result) ==
    ros' = [ros EXCEPT !.o = o,
                       !.last = RecordStreamCall(op, arg, ros.o, result)]

InitRecordStream ==
    /\ CoreIdle
    /\ fos = NoStream
    /\ composer = NoComposer
    /\ pump = NoPump
    /\ \E r \in Records \cup {InvalidRecord}, default \in BOOLEAN :
          LET strings == [x \in StringIds |-> <<>>]
              o == IF default
                   THEN basic_record_ostream(strings)
                   ELSE basic_record_ostream_rec(strings, r)
          IN /\ default => r = InvalidRecord
             /\ ros = [phase |-> "running",
                       o |-> o,
                       last |-> RecordStreamCall(
                                   IF default THEN "construct_default"
                                   ELSE "construct", r, o, InvalidRecord)]

RecordStreamSetRecord ==
    /\ ros.phase = "running"
    /\ \E r \in Records \cup {InvalidRecord} :
          RecordStreamStep("set_record", r, set_record(ros.o, r), InvalidRecord)
    /\ UNCHANGED <<core, fos, composer, pump>>

RecordStreamDetach ==
    /\ ros.phase = "running"
    /\ RecordStreamStep("detach_from_record", InvalidRecord,
                        detach_from_record(ros.o), InvalidRecord)
    /\ UNCHANGED <<core, fos, composer, pump>>

RecordStreamGetRecord ==
    /\ ros.phase = "running"
    /\ RecordStreamStep("get_record", InvalidRecord, get_record(ros.o),
                        ros.o.m_Record)
    /\ UNCHANGED <<core, fos, composer, pump>>

\* operator<< on a value of the stream's own character type
RecordStreamWrite ==
    /\ ros.phase = "running"
    /\ CharCount(ros.o.s) < MaxChars
    /\ \E c \in char_type : \E s \in write(ros.o.s, c) :
          RecordStreamStep("write", c, [ros.o EXCEPT !.s = s], InvalidRecord)
    /\ UNCHANGED <<core, fos, composer, pump>>

\* operator<< (T const& value) whose insertion fails: the underlying stream
\* gets failbit
RecordStreamInsertFails ==
    /\ ros.phase = "running"
    /\ RecordStreamStep("insert_fails", InvalidRecord,
                        [ros.o EXCEPT !.s.state = @ \cup failbit],
                        InvalidRecord)
    /\ UNCHANGED <<core, fos, composer, pump>>

\* ~basic_record_ostream: detach_from_record
RecordStreamDestroy ==
    /\ ros.phase = "running"
    /\ ros' = [phase |-> "destroyed",
               o |-> detach_from_record(ros.o),
               last |-> RecordStreamCall("destroy", InvalidRecord, ros.o,
                                         InvalidRecord)]
    /\ UNCHANGED <<core, fos, composer, pump>>

NextRecordStream ==
    \/ RecordStreamSetRecord
    \/ RecordStreamDetach
    \/ RecordStreamGetRecord
    \/ RecordStreamWrite
    \/ RecordStreamInsertFails
    \/ RecordStreamDestroy

SpecRecordStream == InitRecordStream /\ [][NextRecordStream]_vars

(* ---------------------------------------------------------------------- *)
(* record_pump and BOOST_LOG_STREAM (sources/record_ostream.hpp)           *)
(* ---------------------------------------------------------------------- *)

\* most copies made of the pump of one logging statement
MaxCopies == 2

\* the logger of the logging statement
Logger == "lg"

\* stream_provider::allocate_compound(rec): the compound holding the stream
\* of the record
allocate_compound(r) == IF r = "r1" THEN "compound1" ELSE "compound2"

\* a pump object: its two pointers
Pump(m_pLogger, m_pStreamCompound) ==
    [m_pLogger |-> m_pLogger, m_pStreamCompound |-> m_pStreamCompound]

\* record_pump(logger_type& lg, record const& rec)
record_pump(lg, r) == Pump(lg, allocate_compound(r))

\* the copy constructor leaving the source as it was
record_pump_copy_keeps(that) ==
    [new |-> Pump(that.m_pLogger, that.m_pStreamCompound),
     that |-> that]

\* record_pump(record_pump const& that): the new pump and the source after
\* the copy
record_pump_copy(that) ==
    [new |-> Pump(that.m_pLogger, that.m_pStreamCompound),
     that |-> Pump(NULL, NULL)]

\* the destructor pushing whether or not an exception is in flight
record_pump_destructor_pushes(p, uncaught_exception) ==
    IF p.m_pLogger # NULL
    THEN <<"push_record", "release_compound">>
    ELSE <<>>

\* ~record_pump: the calls it makes, in order. auto_release releases the
\* compound when the block is left, after the push.
record_pump_destructor(p, uncaught_exception) ==
    IF p.m_pLogger # NULL
    THEN (IF ~uncaught_exception THEN <<"push_record">> ELSE <<>>)
         \o <<"release_compound">>
    ELSE <<>>

\* the loop condition that is always true
loop_condition_true(rec_var) == TRUE

\* the condition of the for loop: !!rec_var
loop_condition(rec_var) == valid(rec_var)

\* record::reset
record_reset(rec_var) == InvalidRecord

\* std::uncaught_exception: the statement runs during stack unwinding, or
\* its streaming expression raised
uncaught_exception(st) == st.unwinding \/ st.raised

\* the number of occurrences of a call in a sequence of calls
Count(events, e) == Cardinality({i \in DOMAIN events : events[i] = e})

\* the pumps that have not been destroyed
Alive(st) == {i \in DOMAIN st.pumps : st.alive[i]}

\* one step of the statement: the operation, the pump it acted on, whether
\* an exception was in flight, and the calls it made
PumpCall(op, p, uncaught, events) ==
    [op |-> op, p |-> p, uncaught |-> uncaught, events |-> events]

InitPump ==
    /\ CoreIdle
    /\ fos = NoStream
    /\ ros = NoRecordStream
    /\ composer = NoComposer
    /\ \E unwinding \in BOOLEAN :
          pump = [phase |-> "running",
                  pc |-> "start",
                  rec_var |-> InvalidRecord,
                  opened |-> InvalidRecord,
                  pumps |-> <<>>,
                  alive |-> <<>>,
                  events |-> <<>>,
                  unwinding |-> unwinding,
                  raised |-> FALSE,
                  last |-> PumpCall("none", Pump(NULL, NULL), FALSE, <<>>)]

\* record rec_var = (logger).open_record(): a record, or the invalid handle
\* when no sink accepts the record
PumpOpenRecord ==
    /\ pump.pc = "start"
    /\ \E r \in Records \cup {InvalidRecord} :
          pump' = [pump EXCEPT !.pc = "test", !.rec_var = r, !.opened = r,
                               !.events = Append(@, "open_record"),
                               !.last = PumpCall("open_record", Pump(NULL, NULL),
                                                 FALSE, <<"open_record">>)]
    /\ UNCHANGED <<core, fos, ros, composer>>

\* the loop condition is tested
PumpLoopTest ==
    /\ pump.pc = "test"
    /\ pump' = [pump EXCEPT
                   !.pc = IF loop_condition(pump.rec_var) THEN "body" ELSE "done",
                   !.last = PumpCall("test", Pump(NULL, NULL), FALSE, <<>>)]
    /\ UNCHANGED <<core, fos, ros, composer>>

\* make_pump_stream constructs the pump
PumpMake ==
    /\ pump.pc = "body"
    /\ LET p == record_pump(Logger, pump.rec_var)
       IN pump' = [pump EXCEPT !.pc = "made",
                               !.pumps = Append(@, p),
                               !.alive = Append(@, TRUE),
                               !.events = Append(@, "allocate_compound"),
                               !.last = PumpCall("construct", p, FALSE,
                                                 <<"allocate_compound">>)]
    /\ UNCHANGED <<core, fos, ros, composer>>

\* a pump is copied, as when make_pump_stream returns it by value
PumpCopy ==
    /\ pump.pc = "made"
    /\ Len(pump.pumps) < 1 + MaxCopies
    /\ \E i \in Alive(pump) :
          LET c == record_pump_copy(pump.pumps[i])
          IN pump' = [pump EXCEPT
                         !.pumps = Append([@ EXCEPT ![i] = c.that], c.new),
                         !.alive = Append(@, TRUE),
                         !.last = PumpCall("copy", pump.pumps[i], FALSE, <<>>)]
    /\ UNCHANGED <<core, fos, ros, composer>>

\* the streaming expression is evaluated on the stream of the pump that owns
\* the compound; an operand's output operator can raise
PumpEvaluate ==
    /\ pump.pc = "made"
    /\ \E i \in Alive(pump) :
          /\ pump.pumps[i].m_pStreamCompound # NULL
          /\ \E raised \in BOOLEAN :
                pump' = [pump EXCEPT
                            !.pc = "evaluated",
                            !.raised = raised,
                            !.events = Append(@, "evaluate"),
                            !.last = PumpCall("evaluate", pump.pumps[i], FALSE,
                                              <<"evaluate">>)]
    /\ UNCHANGED <<core, fos, ros, composer>>

\* a pump is destroyed: a temporary left empty by a copy at any time, the
\* others at the end of the full expression or during unwinding
PumpDestroy ==
    /\ pump.pc \in {"made", "evaluated"}
    /\ \E i \in Alive(pump) :
          /\ pump.pc = "made" => pump.pumps[i].m_pLogger = NULL
          /\ LET calls == record_pump_destructor(pump.pumps[i],
                                                 uncaught_exception(pump))
             IN pump' = [pump EXCEPT
                            !.alive[i] = FALSE,
                            !.events = @ \o calls,
                            !.last = PumpCall("destroy", pump.pumps[i],
                                              uncaught_exception(pump), calls)]
    /\ UNCHANGED <<core, fos, ros, composer>>

\* the full expression ended normally: rec_var.reset(), back to the test
PumpReset ==
    /\ pump.pc = "evaluated"
    /\ Alive(pump) = {}
    /\ ~pump.raised
    /\ pump' = [pump EXCEPT !.pc = "test",
                            !.rec_var = record_reset(pump.rec_var),
                            !.events = Append(@, "reset"),
                            !.last = PumpCall("reset", Pump(NULL, NULL), FALSE,
                                              <<"reset">>)]
    /\ UNCHANGED <<core, fos, ros, composer>>

\* the streaming expression raised: the error leaves the statement
PumpPropagate ==
    /\ pump.pc = "evaluated"
    /\ Alive(pump) = {}
    /\ pump.raised
    /\ pump' = [pump EXCEPT !.pc = "raised",
                            !.last = PumpCall("propagate", Pump(NULL, NULL),
                                              TRUE, <<>>)]
    /\ UNCHANGED <<core, fos, ros, composer>>

NextPump ==
    \/ PumpOpenRecord
    \/ PumpLoopTest
    \/ PumpMake
    \/ PumpCopy
    \/ PumpEvaluate
    \/ PumpDestroy
    \/ PumpReset
    \/ PumpPropagate

SpecPump == InitPump /\ [][NextPump]_vars

(* ---------------------------------------------------------------------- *)
(* basic_event_composer (sinks/event_log_backend.hpp)                      *)
(* ---------------------------------------------------------------------- *)

\* most formatters put into a composer in one run
MaxFormatters == 3

\* event identifiers
EventIds == {1, 2}

\* insertion string formatters
InsertionFormatters == {"f1", "f2"}

\* the formatters registered for an event identifier, in order
registered(m_EventMap, id) ==
    IF id \in DOMAIN m_EventMap THEN m_EventMap[id] ELSE <<>>

\* event_map_reference(id, owner): m_Composer is 0
event_map_reference(id) == [kind |-> "object", m_ID |-> id, m_Composer |-> 0]

\* a reference that does not refer to an event_map_reference object
Indeterminate == [kind |-> "indeterminate"]

\* basic_event_composer::operator[]
operator_subscript(id) == event_map_reference(id)

\* basic_event_composer::add_formatter(id, composer, fmt): the formatter is
\* appended to the insertion composer of the hint or, without a hint, of id,
\* which is created when the map has none; the insertion composer is returned
add_formatter(m_EventMap, id, hint, formatter) ==
    LET entry == IF hint # 0 THEN hint ELSE id
    IN [m_EventMap |-> [x \in DOMAIN m_EventMap \cup {entry} |->
                           IF x = entry
                           THEN Append(registered(m_EventMap, entry), formatter)
                           ELSE m_EventMap[x]],
        composer |-> entry]

\* the outcome of one operator%: the map, the reference the call yields, and
\* how the call ended
Chained(m_EventMap, ref, ended) ==
    [m_EventMap |-> m_EventMap, ref |-> ref, ended |-> ended]

\* event_map_reference::operator%: m_Composer = m_Owner.add_formatter(...),
\* and the function ends without a return statement. What the caller gets as
\* the returned reference is undefined: the object itself, a reference to
\* nothing, or no return at all. Applied through a reference to nothing the
\* call is undefined as a whole.
operator_percent(m_EventMap, ref, formatter) ==
    IF ref.kind = "object"
    THEN LET a == add_formatter(m_EventMap, ref.m_ID, ref.m_Composer, formatter)
             this == [ref EXCEPT !.m_Composer = a.composer]
         IN {Chained(a.m_EventMap, this, "returned"),
             Chained(a.m_EventMap, Indeterminate, "returned"),
             Chained(a.m_EventMap, Indeterminate, "crashed")}
    ELSE {Chained(m_EventMap, Indeterminate, "returned"),
          Chained(m_EventMap, Indeterminate, "crashed")}
         \cup {Chained(add_formatter(m_EventMap, x, 0, formatter).m_EventMap,
                       Indeterminate, "returned") : x \in EventIds}

\* the statement comp[id] % f1 % ... being executed: its event identifier,
\* the formatters applied so far, the map before it and the reference the
\* next % is applied to
Statement(pc, id, fmts, before, ref) ==
    [pc |-> pc, id |-> id, fmts |-> fmts, before |-> before, ref |-> ref]

\* explicit basic_event_composer(id_mapper): an empty map of events
InitComposer ==
    /\ CoreIdle
    /\ fos = NoStream
    /\ ros = NoRecordStream
    /\ pump = NoPump
    /\ composer = [phase |-> "running",
                   m_EventMap |-> <<>>,
                   applied |-> 0,
                   stmt |-> Statement("none", 0, <<>>, <<>>, Indeterminate)]

\* comp[id] starts a statement
ComposerSubscript ==
    /\ composer.phase = "running"
    /\ composer.stmt.pc \in {"none", "done"}
    /\ composer.applied < MaxFormatters
    /\ \E id \in EventIds :
          composer' = [composer EXCEPT
                          !.stmt = Statement("chain", id, <<>>,
                                             composer.m_EventMap,
                                             operator_subscript(id))]
    /\ UNCHANGED <<core, fos, ros, pump>>

\* % fmt is applied to the reference the chain has reached
ComposerPercent ==
    /\ composer.phase = "running"
    /\ composer.stmt.pc = "chain"
    /\ composer.applied < MaxFormatters
    /\ \E formatter \in InsertionFormatters :
          \E r \in operator_percent(composer.m_EventMap, composer.stmt.ref, formatter) :
             composer' = [composer EXCEPT
                             !.phase = IF r.ended = "returned" THEN "running"
                                       ELSE r.ended,
                             !.m_EventMap = r.m_EventMap,
                             !.applied = @ + 1,
                             !.stmt.fmts = Append(@, formatter),
                             !.stmt.ref = r.ref]
    /\ UNCHANGED <<core, fos, ros, pump>>

\* the statement ends
ComposerEndStatement ==
    /\ composer.phase = "running"
    /\ composer.stmt.pc = "chain"
    /\ composer.stmt.fmts # <<>>
    /\ composer' = [composer EXCEPT !.stmt.pc = "done"]
    /\ UNCHANGED <<core, fos, ros, pump>>

NextComposer ==
    \/ ComposerSubscript
    \/ ComposerPercent
    \/ ComposerEndStatement

SpecComposer == InitComposer /\ [][NextComposer]_vars

(* ---------------------------------------------------------------------- *)
(* Properties                                                              *)
(* ---------------------------------------------------------------------- *)

VisitationOps == {"invoke_attrs", "invoke_record", "visit_attrs", "visit_record"}

IsVisitation == last.op \in VisitationOps

\* the bound name is in the view the call was made on
Present == last.name \in DOMAIN last.before

\* the bound name is present and holds a value of a candidate type
Candidate == Present /\ last.before[last.name].type \in Range(last.types)

\* C1: when the bound name is absent from the value set, the invoker returns
\* value_not_found (not value_has_invalid_type, not ok), for every candidate
\* type list
C1_AbsentIsNotFound ==
    (IsVisitation /\ ~Present) => last.res.code = "value_not_found"

W_C1 ==
    /\ IsVisitation
    /\ ~Present
    /\ DOMAIN last.before # {}
    /\ Len(last.types) = 2
    /\ last.res.code = "value_not_found"

\* C2: when the bound name is present with a value of dynamic type T and T is
\* not among the candidate types, the invoker returns value_has_invalid_type
\* (not value_not_found, not ok)
C2_WrongTypeIsInvalidType ==
    (IsVisitation /\ Present /\ last.before[last.name].type \in Types
       /\ ~Candidate)
    => last.res.code = "value_has_invalid_type"

W_C2 ==
    /\ IsVisitation
    /\ Present
    /\ last.before[last.name].type = "int"
    /\ last.types = <<"string">>
    /\ last.res.code = "value_has_invalid_type"

\* C3: the visitor is called exactly once when the result is ok, not at all
\* when it is value_not_found or value_has_invalid_type, and never more than
\* once
C3_VisitorCalledAtMostOnce ==
    IsVisitation =>
       /\ Len(last.res.calls) <= 1
       /\ (last.res.code = "ok" => Len(last.res.calls) = 1)
       /\ (last.res.code \in {"value_not_found", "value_has_invalid_type"}
             => Len(last.res.calls) = 0)

W_C3 ==
    /\ IsVisitation
    /\ Len(last.types) = 2
    /\ Present
    /\ last.before[last.name].type = last.types[2]
    /\ last.res.code = "ok"
    /\ Len(last.res.calls) = 1

\* C4: a value v of a candidate type stored under the bound name is read
\* successfully and the visitor receives v itself, not the value of another
\* entry and not a default
C4_VisitorReceivesStoredValue ==
    (IsVisitation /\ Candidate) =>
       /\ last.res.calls = <<last.before[last.name]>>
       /\ (last.visitor = "nop" => last.res.code = "ok")

W_C4 ==
    /\ IsVisitation
    /\ Candidate
    /\ last.visitor = "nop"
    /\ \E n \in DOMAIN last.before :
          n # last.name /\ last.before[n] # last.before[last.name]
    /\ last.res.code = "ok"
    /\ last.res.calls = <<last.before[last.name]>>

\* C5: a call of the invoker leaves the value set as it was: the same names,
\* each with the same attribute value, whatever the outcome of the call
C5_ViewUnchanged ==
    IsVisitation => (last.res.attrs = last.before /\ rec.values = last.before)

W_C5 ==
    /\ IsVisitation
    /\ ~Present
    /\ DOMAIN last.before # {}
    /\ last.res.code = "value_not_found"
    /\ rec.values = last.before

\* C6 as stated: every error that leaves the invoker carries the name the
\* invoker is bound to
C6_EveryErrorCarriesName ==
    (IsVisitation /\ last.res.exc.kind # "none")
    => last.res.exc.name = last.name

\* C6: an error raised by the visitor that is derived from the library's
\* exception base leaves the invoker carrying the bound attribute name; an
\* error of any other type leaves the invoker as the visitor raised it,
\* without the name
C6_ExceptionCarriesName ==
    (IsVisitation /\ Candidate) =>
       /\ (last.visitor = "throws_exception"
             => last.res.exc = [kind |-> "exception", name |-> last.name])
       /\ (last.visitor = "throws_other"
             => last.res.exc = [kind |-> "other", name |-> NoName])

W_C6 ==
    /\ IsVisitation
    /\ Candidate
    /\ last.visitor = "throws_exception"
    /\ last.res.exc.kind = "exception"
    /\ last.res.exc.name = last.name

\* C7: an absent name and a non-candidate type are reported as result codes
\* and raise no error; an error leaves the invoker exactly when the visitor
\* was called and raised it, and it is the visitor's error
C7_ErrorsOnlyFromVisitor ==
    IsVisitation =>
       /\ (~Present => (last.res.code = "value_not_found"
                          /\ last.res.exc = NoExc))
       /\ ((Present /\ ~Candidate)
             => (last.res.code = "value_has_invalid_type"
                   /\ last.res.exc = NoExc))
       /\ (last.res.exc.kind # "none"
             <=> (Len(last.res.calls) > 0
                    /\ VisitorRaises(last.visitor).kind # "none"))
       /\ (last.res.exc.kind # "none"
             => (last.res.code = "none"
                   /\ last.res.exc.kind = VisitorRaises(last.visitor).kind))

W_C7 ==
    /\ IsVisitation
    /\ Candidate
    /\ last.visitor = "throws_other"
    /\ last.res.code = "none"
    /\ last.res.exc.kind = "other"

\* C8: the invoker on a record, the invoker on the record's value set, visit
\* on the record and visit on the value set give the same result code and call
\* the visitor the same number of times with the same value
C8_EntryPointsAgree ==
    IsVisitation =>
       LET r == [values |-> last.before, state |-> "open"]
       IN /\ value_visitor_invoker(last.name, last.types, attribute_values(r),
                                   last.visitor) = last.res
          /\ value_visitor_invoker_record(last.name, last.types, r,
                                          last.visitor) = last.res
          /\ visit(last.name, last.types, attribute_values(r),
                   last.visitor) = last.res
          /\ visit_record(last.name, last.types, r, last.visitor) = last.res

W_C8 ==
    /\ last.op = "visit_record"
    /\ Candidate
    /\ last.res.code = "ok"
    /\ Len(last.res.calls) = 1

\* C9: with fallback_to_default(D) the read yields D when the name is absent
\* or the stored type is not a candidate, and the stored value when the name
\* is present with a candidate type, for every D; the terminal built by
\* or_default(D) holds D
C9_DefaultFallback ==
    last.op \in {"or_default", "keyword_or_default"} =>
       /\ last.terminal.policy = fallback_to_default(last.def_val)
       /\ last.terminal.m_name = last.name
       /\ ~last.res.empty
       /\ last.res.exc = NoExc
       /\ (Candidate => last.res.value = last.before[last.name])
       /\ (~Candidate => last.res.value = last.def_val)

W_C9 ==
    /\ last.op = "or_default"
    /\ Candidate
    /\ last.def_val # last.before[last.name]
    /\ \E n \in DOMAIN last.before : last.before[n] = last.def_val
    /\ last.res.value = last.before[last.name]

\* C10: with fallback_to_none (attr< T >(name) and a keyword used directly) a
\* read of an absent name or of a value of a non-candidate type yields an
\* empty result, raises no error and leaves the value set unchanged
C10_NoneFallback ==
    (last.op \in {"attr", "keyword"} /\ ~Candidate) =>
       /\ last.terminal.policy = fallback_to_none
       /\ last.res.empty
       /\ last.res.exc = NoExc
       /\ last.res.attrs = last.before
       /\ rec.values = last.before

W_C10 ==
    /\ last.op = "attr"
    /\ Present
    /\ last.before[last.name].type \in Types
    /\ ~Candidate
    /\ last.res.empty
    /\ last.res.exc = NoExc

IsExtraction ==
    last.op \in {"attr", "keyword", "or_default", "keyword_or_default",
                 "or_throw", "keyword_or_throw"}

\* C11: with fallback_to_throw the read raises an error when the name is
\* absent and when the stored type is not a candidate; the error carries the
\* attribute name and its kind tells the absent case from the wrong-type
\* case; no error is raised when the value has a candidate type
C11_ThrowFallback ==
    last.op \in {"or_throw", "keyword_or_throw"} =>
       /\ last.terminal.policy = fallback_to_throw
       /\ last.terminal.m_name = last.name
       /\ (~Present
             => last.res.exc = [kind |-> "missing_value", name |-> last.name])
       /\ ((Present /\ ~Candidate)
             => last.res.exc = [kind |-> "invalid_type", name |-> last.name])
       /\ (Candidate
             => (last.res.exc = NoExc
                   /\ last.res.value = last.before[last.name]))

W_C11 ==
    /\ last.op = "or_throw"
    /\ Present
    /\ last.before[last.name].type \in Types
    /\ ~Candidate
    /\ last.res.exc = [kind |-> "invalid_type", name |-> last.name]

\* the result code that corresponds to an extraction state
CodeOf(state) ==
    CASE state = "found"      -> "ok"
      [] state = "not_found"  -> "value_not_found"
      [] state = "wrong_type" -> "value_has_invalid_type"

\* C12: for the same name, value set and candidate types the invoker and the
\* extractor classify the read into the same one of the three outcomes
\* (ok / not found / wrong type), so a fallback policy sees the same outcome
\* from either
C12_InvokerAndExtractorAgree ==
    /\ (IsExtraction
          => value_visitor_invoker(last.name, last.types, last.before,
                                   "nop").code = CodeOf(last.res.state))
    /\ ((IsVisitation /\ last.visitor = "nop")
          => last.res.code = CodeOf(extract(last.name, last.types,
                                            last.before).state))

W_C12 ==
    /\ IsVisitation
    /\ last.visitor = "nop"
    /\ Present
    /\ ~Candidate
    /\ last.res.code = "value_has_invalid_type"
    /\ extract(last.name, last.types, last.before).state = "wrong_type"

\* the orderings of a candidate type list
Orderings(types) ==
    {p \in value_types : Len(p) = Len(types) /\ Range(p) = Range(types)}

\* C16: at most one type of a candidate list matches a stored value, so the
\* result code and the value passed to the visitor are the same for every
\* ordering of the same candidate types
C16_OrderIndependent ==
    IsVisitation =>
       /\ (Present =>
             Cardinality({i \in 1 .. Len(last.types) :
                            holds(last.before[last.name], last.types[i])}) <= 1)
       /\ \A p \in Orderings(last.types) :
             LET o == value_visitor_invoker(last.name, p, last.before,
                                            last.visitor)
             IN o.code = last.res.code /\ o.calls = last.res.calls

W_C16 ==
    /\ IsVisitation
    /\ Len(last.types) = 2
    /\ Present
    /\ holds(last.before[last.name], last.types[2])
    /\ last.visitor = "nop"
    /\ last.res.code = "ok"
    /\ Cardinality(Orderings(last.types)) = 2

\* the outcome of the call had the entry of the bound name held v instead
OutcomeWith(v) ==
    value_visitor_invoker(last.name, last.types,
                          [last.before EXCEPT ![last.name] = v], last.visitor)

\* C17 as stated: a read of a name whose attribute value is empty differs
\* from a read of a value of a non-candidate type
C17_EmptyDistinguishable ==
    (IsVisitation /\ Present /\ last.before[last.name] = EmptyValue) =>
       \A v \in Values :
          v.type \notin Range(last.types) =>
             (OutcomeWith(v).code # last.res.code
                \/ OutcomeWith(v).calls # last.res.calls
                \/ OutcomeWith(v).exc # last.res.exc)

\* C17: an attribute value can be empty; a read of a name whose attribute
\* value is empty returns value_has_invalid_type without calling the visitor
\* and without an error, the same outcome as for a value of a non-candidate
\* type, and differs only from the read of an absent name
C17_EmptyReadsAsInvalidType ==
    (IsVisitation /\ Present /\ last.before[last.name] = EmptyValue) =>
       /\ last.res.code = "value_has_invalid_type"
       /\ last.res.calls = <<>>
       /\ last.res.exc = NoExc
       /\ \A v \in Values :
             v.type \notin Range(last.types) =>
                (OutcomeWith(v).code = last.res.code
                   /\ OutcomeWith(v).calls = last.res.calls)

W_C17 ==
    /\ IsVisitation
    /\ Present
    /\ last.before[last.name] = EmptyValue
    /\ last.types = <<"int">>
    /\ last.res.code = "value_has_invalid_type"

\* C18: while a record is open no operation changes its value set; the set
\* changes only during record construction, before any consumer has read it,
\* and when the record is closed or discarded
C18_OpenSetImmutable ==
    [][/\ ((rec.state = "open" /\ rec'.state = "open")
             => rec'.values = rec.values)
       /\ (rec'.values # rec.values
             => ((rec.state = "building" /\ last.op = "none")
                   \/ rec'.state = "closed"))]_vars

W_C18 ==
    /\ rec.state = "open"
    /\ IsExtraction
    /\ DOMAIN rec.values = Names
    /\ rec.values = last.before

\* C19: a visitation_result converts to true exactly when its code is ok,
\* operator! is true exactly when its code is not ok, code() returns the code
\* it was constructed from, and a default-constructed result has code ok
C19_ResultConversions ==
    (IsVisitation /\ last.res.code \in error_code) =>
       LET r == visitation_result(last.res.code)
       IN /\ visitation_result_code(r) = last.res.code
          /\ (operator_bool(r) <=> last.res.code = "ok")
          /\ (operator_not(r) <=> last.res.code # "ok")
          /\ visitation_result_code(visitation_result_default) = "ok"
          /\ operator_bool(visitation_result_default)
          /\ ~operator_not(visitation_result_default)

W_C19 ==
    /\ IsVisitation
    /\ last.res.code = "value_has_invalid_type"
    /\ operator_not(visitation_result(last.res.code))
    /\ ~operator_bool(visitation_result(last.res.code))

\* the sources among S that have an entry for name n
Holders(n, S) == {src \in S : n \in DOMAIN merge.sets[src]}

\* the source of highest precedence among a non-empty set of sources
Highest(S) == CHOOSE src \in S : \A o \in S : Precedence(o) <= Precedence(src)

\* C13: in a value set merged from the global, thread-local and record-local
\* sources each name resolves to the container of the source of highest
\* precedence that has it, whatever the order in which the sources were
\* merged, and each name has exactly one container
C13_MergePrecedence ==
    merge.phase \in {"merging", "built"} =>
       /\ DOMAIN merge.values = {n \in Names : Holders(n, merge.done) # {}}
       /\ \A n \in DOMAIN merge.values :
             /\ merge.origin[n] = Highest(Holders(n, merge.done))
             /\ merge.values[n] = merge.sets[merge.origin[n]][n]

W_C13 ==
    /\ merge.phase = "built"
    /\ \E a \in Names, b \in Names :
          /\ Holders(a, Sources) = {"global", "thread"}
          /\ merge.sets["global"][a] # merge.sets["thread"][a]
          /\ merge.values[a] = merge.sets["thread"][a]
          /\ Holders(b, Sources) = {"thread", "record"}
          /\ merge.sets["thread"][b] # merge.sets["record"][b]
          /\ merge.values[b] = merge.sets["record"][b]

\* C14: two attribute names are equal exactly when the strings they were
\* created from are equal: every call with the same string returns the same
\* identifier and two different strings never share an identifier
C14_InternIdempotent ==
    registry.phase = "running" =>
       \A p \in registry.issued, q \in registry.issued :
          (p[1] = q[1]) <=> (p[2] = q[2])

W_C14 ==
    /\ registry.phase = "running"
    /\ Cardinality(registry.issued) = 2
    /\ \E t \in Threads :
          /\ registry.pc[t] = "return"
          /\ <<registry.arg[t], registry.result[t]>> \in registry.issued

\* each string is registered at most once and every identifier handed out
\* is the index of its string
TableOk ==
    /\ \A i \in 1 .. Len(registry.table), j \in 1 .. Len(registry.table) :
          registry.table[i] = registry.table[j] => i = j
    /\ \A p \in registry.issued :
          p[2] \in 1 .. Len(registry.table) /\ registry.table[p[2]] = p[1]
    /\ \A p \in registry.issued, q \in registry.issued :
          p[1] = q[1] => p[2] = q[2]

HasMessage ==
    /\ message.name_ \in DOMAIN rec.values
    /\ rec.values[message.name_].type \in Range(message.value_type)

\* C20: a default-constructed formatter, and a formatter after reset()
\* whatever was assigned, swapped or moved into it before, writes the message
\* text of the record and nothing else; for a record without a message or
\* with a message of another type it writes nothing and raises no error
C20_DefaultFormatterWritesMessage ==
    fmt.phase = "running" =>
       /\ \A x \in Formatters :
             fmt.fresh[x] => fmt.m_Formatter[x] = "default_formatter"
       /\ ((fmt.last.op = "format" /\ fmt.last.fresh) =>
             /\ fmt.last.res.defined
             /\ fmt.last.res.exc = NoExc
             /\ fmt.last.res.out = IF HasMessage
                                   THEN <<rec.values[message.name_]>>
                                   ELSE <<>>)

W_C20 ==
    /\ fmt.phase = "running"
    /\ fmt.last.op = "format"
    /\ fmt.last.formatter = "g"
    /\ fmt.last.fresh
    /\ message.name_ \in DOMAIN rec.values
    /\ ~HasMessage
    /\ fmt.last.res.out = <<>>

(* ---------------------------------------------------------------------- *)
(* C23: one call of the invoker looks the attribute name up in the view   *)
(* exactly once and dispatches on the type of the found value at most     *)
(* once; an absent name is never dispatched on; the number of lookups     *)
(* does not grow with the number of candidate types.                      *)
(* ---------------------------------------------------------------------- *)
C23_OneLookupOneVisit ==
    IsVisitation =>
        /\ last.res.finds = 1
        /\ last.res.visits <= 1
        /\ (~Present => last.res.visits = 0)
        /\ (Present => last.res.visits = 1)

\* a present name was visited with two candidate types
W_C23 ==
    /\ IsVisitation
    /\ Present
    /\ Len(last.types) = 2
    /\ last.res.finds = 1
    /\ last.res.visits = 1

(* ---------------------------------------------------------------------- *)
(* C28: after construction and after any sequence of attach and detach    *)
(* calls, with writes and flushes in between, a basic_formatting_ostream  *)
(* is in the good state exactly when a storage string is attached.        *)
(* ---------------------------------------------------------------------- *)
C28_GoodIffAttached ==
    fos.phase = "running" => (good(fos.s) <=> storage(fos.s) # NULL)

\* a stream constructed without a string was attached, written to and
\* detached again
W_C28 ==
    /\ fos.phase = "running"
    /\ fos.last.op = "detach"
    /\ storage(fos.last.before) # NULL
    /\ storage(fos.s) = NULL
    /\ ~good(fos.s)
    /\ \E x \in StringIds : fos.s.strings[x] # <<>>

(* ---------------------------------------------------------------------- *)
(* C29: whenever the converting write runs, a storage string is attached  *)
(* (its assertion storage != NULL holds), also on a default-constructed   *)
(* or detached stream; and the characters buffered before the call are in *)
(* the storage before the converted ones.                                 *)
(* ---------------------------------------------------------------------- *)
C29_ConvertingWriteHasStorage ==
    fos.last.op = "write_converting" =>
        /\ storage(fos.last.before) # NULL
        /\ fos.last.ended = "returned"
        /\ fos.s.strings[storage(fos.s)] =
              fos.last.before.strings[storage(fos.last.before)]
              \o fos.last.before.buf \o <<code_convert(fos.last.arg)>>

(* ---------------------------------------------------------------------- *)
(* C21: a default-constructed basic_record_ostream satisfies              *)
(* !*this == true, and in every state operator! is true exactly when no   *)
(* valid record is attached or the underlying stream has failed.          *)
(* ---------------------------------------------------------------------- *)
C21_NotStreamIffNoRecordOrFailed ==
    ros.phase = "running" =>
        /\ ros.last.op = "construct_default"
              => record_ostream_operator_not(ros.o)
        /\ record_ostream_operator_not(ros.o)
              <=> (ros.o.m_Record = InvalidRecord
                   \/ ros.o.s.state \cap {"failbit", "badbit"} # {})

\* a stream with a valid record attached whose underlying stream has failed
W_C21 ==
    /\ ros.phase = "running"
    /\ ros.o.m_Record \in Records
    /\ storage(ros.o.s) # NULL
    /\ "failbit" \in ros.o.s.state
    /\ record_ostream_operator_not(ros.o)

(* ---------------------------------------------------------------------- *)
(* C27: set_record(rec) detaches from the current record, completing the  *)
(* pending formatting into it, then adopts rec, then re-initializes the   *)
(* stream: afterwards the stream's record is rec, the stream is usable    *)
(* exactly when rec is valid, and a record the stream is not attached to  *)
(* receives no output.                                                    *)
(* ---------------------------------------------------------------------- *)
C27_SetRecord ==
    [][/\ ros.phase = "running" /\ ros'.phase = "running"
          /\ ros'.last.op = "set_record"
          => LET old == ros.o.m_Record
                 new == ros'.last.arg
             IN /\ ros'.o.m_Record = new
                /\ ros'.o.s.buf = <<>>
                /\ valid(old) =>
                      ros'.o.s.strings[message_string(old)] =
                         ros.o.s.strings[message_string(old)] \o ros.o.s.buf
                /\ (~record_ostream_operator_not(ros'.o)) <=> valid(new)
                /\ storage(ros'.o.s) =
                      IF valid(new) THEN message_string(new) ELSE NULL
       /\ ros.phase = "running"
          => \A r \in Records :
                r # ros.o.m_Record =>
                   ros'.o.s.strings[message_string(r)] =
                      ros.o.s.strings[message_string(r)]]_vars

\* the stream was moved from one valid record, with formatting pending and
\* the stream failed, to another valid record
W_C27 ==
    /\ ros.phase = "running"
    /\ ros.last.op = "set_record"
    /\ ros.last.before.m_Record \in Records
    /\ ros.last.before.s.buf # <<>>
    /\ fail(ros.last.before.s)
    /\ ros.last.arg \in Records \ {ros.last.before.m_Record}
    /\ ros.o.m_Record = ros.last.arg

(* ---------------------------------------------------------------------- *)
(* C24: for a record_pump and any chain of copies made from it, the       *)
(* record is pushed at most once and the stream compound is released      *)
(* exactly once: a copy takes both pointers and nulls them in its source, *)
(* so at most one pump owns the compound, and a pump whose logger pointer *)
(* is null neither pushes nor releases.                                   *)
(* ---------------------------------------------------------------------- *)
C24_PushedAndReleasedOnce ==
    pump.phase = "running" =>
        /\ Count(pump.events, "push_record") <= 1
        /\ Count(pump.events, "release_compound") <= 1
        /\ Cardinality({i \in DOMAIN pump.pumps :
                           pump.pumps[i].m_pLogger # NULL}) <= 1
        /\ \A i \in DOMAIN pump.pumps :
              pump.pumps[i].m_pLogger = NULL
                 <=> pump.pumps[i].m_pStreamCompound = NULL
        /\ (pump.pumps # <<>> /\ Alive(pump) = {})
              => Count(pump.events, "release_compound") = 1
        /\ pump.last.op = "copy"
              => /\ pump.pumps[Len(pump.pumps)] = pump.last.p
                 /\ \E i \in 1..(Len(pump.pumps) - 1) :
                       pump.pumps[i] = Pump(NULL, NULL)
        /\ (pump.last.op = "destroy" /\ pump.last.p.m_pLogger = NULL)
              => pump.last.events = <<>>

\* the pump was copied twice and all three pumps are destroyed
W_C24 ==
    /\ pump.phase = "running"
    /\ Len(pump.pumps) = 3
    /\ Alive(pump) = {}
    /\ pump.pumps[3].m_pLogger # NULL
    /\ Count(pump.events, "push_record") = 1
    /\ Count(pump.events, "release_compound") = 1

(* ---------------------------------------------------------------------- *)
(* C25: a pump that owns a stream compound and is destroyed while an      *)
(* exception is in flight does not push the record but releases the       *)
(* compound; destroyed with no exception in flight it pushes the record   *)
(* and then releases the compound.                                        *)
(* ---------------------------------------------------------------------- *)
C25_DestructorUnderException ==
    (pump.last.op = "destroy" /\ pump.last.p.m_pStreamCompound # NULL) =>
        IF pump.last.uncaught
        THEN pump.last.events = <<"release_compound">>
        ELSE pump.last.events = <<"push_record", "release_compound">>

\* the owning pump was destroyed after the streaming expression raised
W_C25 ==
    /\ pump.last.op = "destroy"
    /\ pump.last.p.m_pStreamCompound # NULL
    /\ pump.raised
    /\ pump.last.uncaught
    /\ Count(pump.events, "push_record") = 0
    /\ Count(pump.events, "release_compound") = 1

\* the statement is over: the loop ended or an error left it
StatementOver == pump.phase = "running" /\ pump.pc \in {"done", "raised"}

(* ---------------------------------------------------------------------- *)
(* C26 as stated: one BOOST_LOG_STREAM statement opens exactly one record *)
(* and terminates; with an invalid record the streaming expression is not *)
(* evaluated and nothing is pushed; with a valid record the expression is *)
(* evaluated exactly once, the record is pushed exactly once, then the    *)
(* record is reset and the loop ends.                                     *)
(* ---------------------------------------------------------------------- *)
C26_ValidRecordPushedOnce ==
    StatementOver =>
        /\ Count(pump.events, "open_record") = 1
        /\ ~valid(pump.opened)
              => /\ Count(pump.events, "evaluate") = 0
                 /\ Count(pump.events, "push_record") = 0
        /\ valid(pump.opened)
              => /\ Count(pump.events, "evaluate") = 1
                 /\ Count(pump.events, "push_record") = 1
                 /\ Count(pump.events, "reset") = 1
                 /\ pump.pc = "done"

(* ---------------------------------------------------------------------- *)
(* C26 amended: as above, except that a valid record is pushed only when  *)
(* no exception is in flight as the pump is destroyed. When the streaming *)
(* expression raises, the record is neither pushed nor reset and the      *)
(* error leaves the statement; when the statement runs during stack       *)
(* unwinding, the record is not pushed. The compound is released once in  *)
(* every case, and the statement can always take its next step.           *)
(* ---------------------------------------------------------------------- *)
C26_ValidRecordPushedUnlessException ==
    pump.phase = "running" =>
        /\ Count(pump.events, "open_record") <= 1
        /\ Count(pump.events, "evaluate") <= 1
        /\ Count(pump.events, "push_record") <= 1
        /\ ~StatementOver => ENABLED NextPump
        /\ StatementOver =>
              /\ Count(pump.events, "open_record") = 1
              /\ ~valid(pump.opened)
                    => /\ pump.events = <<"open_record">>
                       /\ pump.pc = "done"
              /\ valid(pump.opened)
                    => /\ Count(pump.events, "evaluate") = 1
                       /\ Count(pump.events, "release_compound") = 1
                       /\ Count(pump.events, "push_record") =
                             IF pump.unwinding \/ pump.raised THEN 0 ELSE 1
                       /\ pump.raised
                             => /\ pump.pc = "raised"
                                /\ Count(pump.events, "reset") = 0
                       /\ ~pump.raised
                             => /\ pump.pc = "done"
                                /\ ~valid(pump.rec_var)
                                /\ pump.events[Len(pump.events)] = "reset"
                                /\ Count(pump.events, "reset") = 1

\* a statement with a valid record ended normally: evaluated, pushed,
\* released, reset
W_C26 ==
    /\ StatementOver
    /\ pump.pc = "done"
    /\ valid(pump.opened)
    /\ ~pump.unwinding
    /\ Len(pump.pumps) > 1
    /\ Count(pump.events, "push_record") = 1
    /\ pump.events[Len(pump.events)] = "reset"

(* ---------------------------------------------------------------------- *)
(* C22: comp[id] % f1 % ... % fN registers exactly the formatters f1..fN  *)
(* for event id, in that order: each % adds one formatter and yields a    *)
(* reference from which the chain continues.                              *)
(* ---------------------------------------------------------------------- *)
C22_ChainRegistersInOrder ==
    /\ composer.phase # "crashed"
    /\ (composer.phase = "running" /\ composer.stmt.pc \in {"chain", "done"})
          => /\ composer.stmt.pc = "chain" =>
                   composer.stmt.ref.kind = "object"
             /\ registered(composer.m_EventMap, composer.stmt.id) =
                   registered(composer.stmt.before, composer.stmt.id)
                   \o composer.stmt.fmts
             /\ \A x \in EventIds \ {composer.stmt.id} :
                   registered(composer.m_EventMap, x) =
                      registered(composer.stmt.before, x)

====
